---- MODULE Spec2Model ----
(***************************************************************************)
(* Model of secret-manager-demo (src/main.go): one HTTP endpoint,          *)
(* /get-secret, whose handler resolves a secret by name either from the    *)
(* process environment (no GCP project configured) or from Secret Manager  *)
(* with a token fetched from the instance metadata service.                *)
(*                                                                         *)
(* Strings are sequences of bytes (0..255), so that base64 decoding, JSON  *)
(* string escaping and URL parsing are computed as the Go library computes *)
(* them.                                                                   *)
(***************************************************************************)
EXTENDS Integers, Sequences, FiniteSets

\* ------------------------------------------------------------------ bounds

\* Number of request slots (requests served concurrently by net/http).
NumRequests == 2

\* Longest secret, in bytes, that the Secret Manager stub hands out encoded.
MaxBytes == 1

Requests == 1..NumRequests

\* ----------------------------------------------------------- byte strings

Empty == <<>>

\* "default"
FallbackDefault == <<100, 101, 102, 97, 117, 108, 116>>

\* "GCP_PROJECT"
GcpProjectVar == <<71, 67, 80, 95, 80, 82, 79, 74, 69, 67, 84>>

\* "F", the name of a secret that is also an environment variable's name
NameF == <<70>>

\* "%", a secret name that does not form a valid URL path
NamePct == <<37>>

\* "Bearer "
BearerPrefix == <<66, 101, 97, 114, 101, 114, 32>>

\* "application/json"
ApplicationJson == <<97, 112, 112, 108, 105, 99, 97, 116, 105, 111, 110, 47, 106, 115, 111, 110>>

\* "GET", "POST"
MethodGet == <<71, 69, 84>>
MethodPost == <<80, 79, 83, 84>>

StatusOK == 200
StatusBadRequest == 400
StatusMethodNotAllowed == 405
StatusInternalServerError == 500

IsHex(c) == (c >= 48 /\ c <= 57) \/ (c >= 97 /\ c <= 102) \/ (c >= 65 /\ c <= 70)

HexVal(c) == IF c >= 48 /\ c <= 57 THEN c - 48
             ELSE IF c >= 97 /\ c <= 102 THEN c - 87
             ELSE c - 55

\* lower-case hex digit of 0..15, as encoding/json writes it
HexDigit(n) == IF n < 10 THEN 48 + n ELSE 87 + n

\* index of the first occurrence of byte c in s, 0 if none
RECURSIVE IndexFrom(_, _, _)
IndexFrom(s, c, i) ==
    IF i > Len(s) THEN 0
    ELSE IF s[i] = c THEN i
    ELSE IndexFrom(s, c, i + 1)

IndexByte(s, c) == IndexFrom(s, c, 1)

\* ------------------------------------------------ encoding/base64 (Std)

\* the character of a 6-bit value in the standard alphabet
B64Char(v) ==
    IF v < 26 THEN 65 + v
    ELSE IF v < 52 THEN 71 + v
    ELSE IF v < 62 THEN v - 4
    ELSE IF v = 62 THEN 43
    ELSE 47

\* the 6-bit value of a character, -1 if it is not in the alphabet
B64Index(c) ==
    IF c >= 65 /\ c <= 90 THEN c - 65
    ELSE IF c >= 97 /\ c <= 122 THEN c - 71
    ELSE IF c >= 48 /\ c <= 57 THEN c + 4
    ELSE IF c = 43 THEN 62
    ELSE IF c = 47 THEN 63
    ELSE -1

\* What Secret Manager sends: the secret's bytes in padded standard base64.
RECURSIVE B64Encode(_)
B64Encode(b) ==
    IF Len(b) = 0 THEN <<>>
    ELSE IF Len(b) = 1 THEN
        <<B64Char(b[1] \div 4), B64Char((b[1] % 4) * 16), 61, 61>>
    ELSE IF Len(b) = 2 THEN
        <<B64Char(b[1] \div 4), B64Char((b[1] % 4) * 16 + b[2] \div 16),
          B64Char((b[2] % 16) * 4), 61>>
    ELSE
        <<B64Char(b[1] \div 4), B64Char((b[1] % 4) * 16 + b[2] \div 16),
          B64Char((b[2] % 16) * 4 + b[3] \div 64), B64Char(b[3] % 64)>>
        \o B64Encode(SubSeq(b, 4, Len(b)))

IsNewline(c) == c = 10 \/ c = 13

StripNewlines(s) == SelectSeq(s, LAMBDA c : ~IsNewline(c))

B64Err == [err |-> TRUE, data |-> <<>>]

\* Decoding of 4-character quanta. The decoder is not strict: the unused
\* low bits of the last character before padding are not checked.
RECURSIVE DecodeQuanta(_)
DecodeQuanta(s) ==
    IF Len(s) = 0 THEN [err |-> FALSE, data |-> <<>>]
    ELSE IF Len(s) < 4 THEN B64Err
    ELSE
      LET i1 == B64Index(s[1])
          i2 == B64Index(s[2])
          i3 == B64Index(s[3])
          i4 == B64Index(s[4])
          rest == SubSeq(s, 5, Len(s))
      IN  IF i1 < 0 \/ i2 < 0 THEN B64Err
          ELSE IF i3 < 0 THEN
              IF s[3] = 61 /\ s[4] = 61 /\ Len(rest) = 0
              THEN [err |-> FALSE, data |-> <<i1 * 4 + i2 \div 16>>]
              ELSE B64Err
          ELSE IF i4 < 0 THEN
              IF s[4] = 61 /\ Len(rest) = 0
              THEN [err |-> FALSE,
                    data |-> <<i1 * 4 + i2 \div 16, (i2 % 16) * 16 + i3 \div 4>>]
              ELSE B64Err
          ELSE
              LET tail == DecodeQuanta(rest)
              IN  IF tail.err THEN B64Err
                  ELSE [err |-> FALSE,
                        data |-> <<i1 * 4 + i2 \div 16,
                                   (i2 % 16) * 16 + i3 \div 4,
                                   (i3 % 4) * 64 + i4>> \o tail.data]

\* base64.StdEncoding.DecodeString: \r and \n are skipped anywhere.
DecodeString(s) == DecodeQuanta(StripNewlines(s))

\* ----------------------------------------------- encoding/json: Marshal

IsCont(s, i) == i <= Len(s) /\ s[i] >= 128 /\ s[i] <= 191

InRange(s, i, lo, hi) == i <= Len(s) /\ s[i] >= lo /\ s[i] <= hi

\* utf8.DecodeRuneInString at position i: the size of the well-formed
\* encoding that starts there, 0 if the byte starts none (RuneError, size 1).
RuneSize(s, i) ==
    LET b == s[i]
    IN  IF b < 128 THEN 1
        ELSE IF b >= 194 /\ b <= 223 THEN (IF IsCont(s, i + 1) THEN 2 ELSE 0)
        ELSE IF b = 224 THEN
            (IF InRange(s, i + 1, 160, 191) /\ IsCont(s, i + 2) THEN 3 ELSE 0)
        ELSE IF b = 237 THEN
            (IF InRange(s, i + 1, 128, 159) /\ IsCont(s, i + 2) THEN 3 ELSE 0)
        ELSE IF b >= 225 /\ b <= 239 THEN
            (IF IsCont(s, i + 1) /\ IsCont(s, i + 2) THEN 3 ELSE 0)
        ELSE IF b = 240 THEN
            (IF InRange(s, i + 1, 144, 191) /\ IsCont(s, i + 2) /\ IsCont(s, i + 3)
             THEN 4 ELSE 0)
        ELSE IF b >= 241 /\ b <= 243 THEN
            (IF IsCont(s, i + 1) /\ IsCont(s, i + 2) /\ IsCont(s, i + 3) THEN 4 ELSE 0)
        ELSE IF b = 244 THEN
            (IF InRange(s, i + 1, 128, 143) /\ IsCont(s, i + 2) /\ IsCont(s, i + 3)
             THEN 4 ELSE 0)
        ELSE 0

\* the six bytes \u00XX
EscapeU00(b) == <<92, 117, 48, 48, HexDigit(b \div 16), HexDigit(b % 16)>>

\* backslash, u, f, f, f, d (U+FFFD): what Marshal writes for a byte that is not UTF-8
EscapeReplacement == <<92, 117, 102, 102, 102, 100>>

\* htmlSafeSet: printable ASCII except the quote, the backslash, <, > and &
HtmlSafe(b) == b >= 32 /\ b < 128 /\ b \notin {34, 92, 60, 62, 38}

\* encodeState.string with escapeHTML, from position i
RECURSIVE EscapeFrom(_, _)
EscapeFrom(s, i) ==
    IF i > Len(s) THEN <<>>
    ELSE
      LET b == s[i]
          n == RuneSize(s, i)
      IN  IF b < 128 THEN
              (IF HtmlSafe(b) THEN <<b>>
               ELSE IF b = 92 \/ b = 34 THEN <<92, b>>
               ELSE IF b = 10 THEN <<92, 110>>
               ELSE IF b = 13 THEN <<92, 114>>
               ELSE IF b = 9 THEN <<92, 116>>
               ELSE EscapeU00(b)) \o EscapeFrom(s, i + 1)
          ELSE IF n = 0 THEN EscapeReplacement \o EscapeFrom(s, i + 1)
          ELSE IF n = 3 /\ b = 226 /\ s[i + 1] = 128 /\ s[i + 2] \in {168, 169}
               THEN <<92, 117, 50, 48, 50, HexDigit(s[i + 2] - 160)>> \o EscapeFrom(s, i + 3)
          ELSE SubSeq(s, i, i + n - 1) \o EscapeFrom(s, i + n)

\* a Go string as a JSON string literal
JsonString(s) == <<34>> \o EscapeFrom(s, 1) \o <<34>>

\* {"name":   ,"value":   }
LitName == <<123, 34, 110, 97, 109, 101, 34, 58>>
LitValue == <<44, 34, 118, 97, 108, 117, 101, 34, 58>>
LitClose == <<125>>

\* json.Marshal(struct{Name, Value string}): never an error for strings
Marshal(name, value) ==
    [err |-> FALSE,
     bytes |-> LitName \o JsonString(name) \o LitValue \o JsonString(value) \o LitClose]

\* --------------------------------------- net/http.NewRequest: url.Parse

HasCTL(s) == \E i \in 1..Len(s) : s[i] < 32 \/ s[i] = 127

\* every % is followed by two hex digits (url.unescape's first pass)
EscapesOk(s) ==
    \A i \in 1..Len(s) :
        s[i] = 37 => (i + 2 <= Len(s) /\ IsHex(s[i + 1]) /\ IsHex(s[i + 2]))

Before(s, c) == IF IndexByte(s, c) = 0 THEN s ELSE SubSeq(s, 1, IndexByte(s, c) - 1)

After(s, c) == IF IndexByte(s, c) = 0 THEN <<>> ELSE SubSeq(s, IndexByte(s, c) + 1, Len(s))

\* the URL of the token call: a constant, with nothing to substitute
TokenUrl == [service |-> "metadata", project |-> <<>>, name |-> <<>>]

\* .../projects/%s/secrets/%s/versions/latest:access
SecretUrl(project, name) == [service |-> "secretmanager", project |-> project, name |-> name]

\* the substituted part of the URL, the only part that can make it invalid
UrlVars(url) == url.project \o <<47>> \o url.name

\* whether http.NewRequest(GET, url, nil) returns an error: url.Parse cuts
\* the fragment at the first #, the query at the first ?, rejects control
\* bytes before the fragment and bad escapes in the path and the fragment.
NewRequestErr(url) ==
    LET raw == UrlVars(url)
        u == Before(raw, 35)
        path == Before(u, 63)
        frag == After(raw, 35)
    IN  HasCTL(u) \/ ~EscapesOk(path) \/ ~EscapesOk(frag)

\* --------------------------------------------- encoding/json: Unmarshal

\* A JSON value met where a struct field is expected: absent, null, a
\* number n, a string s, or an object.
Absent == [t |-> "absent", n |-> 0, s |-> <<>>]
JNull == [t |-> "null", n |-> 0, s |-> <<>>]
JNum(n) == [t |-> "number", n |-> n, s |-> <<>>]
JStr(s) == [t |-> "string", n |-> 0, s |-> s]
JObj == [t |-> "object", n |-> 0, s |-> <<>>]

\* A response body: text that is not JSON ("syntax"), the JSON null, an
\* array, or an object with the members the two structs look for (data is
\* the member of payload, read when payload is an object).
JsonBody(kind, token, error, status, payload, data) ==
    [kind |-> kind, access_token |-> token, error |-> error, status |-> status,
     payload |-> payload, data |-> data]

ObjectBody(token, error, status, payload, data) ==
    JsonBody("object", token, error, status, payload, data)

NotJson == JsonBody("syntax", Absent, Absent, Absent, Absent, Absent)
NullBody == JsonBody("null", Absent, Absent, Absent, Absent, Absent)
ArrayBody == JsonBody("array", Absent, Absent, Absent, Absent, Absent)
EmptyObject == ObjectBody(Absent, Absent, Absent, Absent, Absent)

\* A member absent or null leaves the field at its zero value; a member of
\* another JSON type is an UnmarshalTypeError (the other fields are still set).
StringFieldErr(f) == f.t \in {"number", "object"}
StringField(f) == IF f.t = "string" THEN f.s ELSE <<>>
IntFieldErr(f) == f.t \in {"string", "object"}
IntField(f) == IF f.t = "number" THEN f.n ELSE 0
StructFieldErr(f) == f.t \in {"number", "string"}

\* Unmarshal into anything but a pointer to a struct-shaped value: syntax
\* errors and arrays fail, null is a no-op.
TopLevelErr(body) == body.kind \in {"syntax", "array"}

\* faulty variant: an access_token of the wrong type is taken as empty
UnmarshalTokenLenient(body) ==
    [err |-> body.kind = "syntax",
     AccessToken |-> IF body.kind = "object" THEN StringField(body.access_token) ELSE <<>>]

\* json.Unmarshal(bytes, &tokenResponse)
UnmarshalToken(body) ==
    [err |-> TopLevelErr(body)
             \/ (body.kind = "object" /\ StringFieldErr(body.access_token)),
     AccessToken |-> IF body.kind = "object" THEN StringField(body.access_token) ELSE <<>>]

\* json.Unmarshal(bytes, &secretResponse)
UnmarshalSecret(body) ==
    [err |-> TopLevelErr(body)
             \/ (body.kind = "object"
                 /\ (\/ IntFieldErr(body.error)
                     \/ StringFieldErr(body.status)
                     \/ StructFieldErr(body.payload)
                     \/ (body.payload.t = "object" /\ StringFieldErr(body.data)))),
     Error |-> IF body.kind = "object" THEN IntField(body.error) ELSE 0,
     Status |-> IF body.kind = "object" THEN StringField(body.status) ELSE <<>>,
     Data |-> IF body.kind = "object" /\ body.payload.t = "object"
              THEN StringField(body.data) ELSE <<>>]

\* ------------------------------------------------- the two upstreams

\* What http.DefaultClient.Do and ioutil.ReadAll give back for one call:
\* Do fails ("doErr"), the body cannot be read ("readErr"), or a body.
DoErr == [o |-> "doErr", body |-> NotJson]
ReadErr == [o |-> "readErr", body |-> NotJson]
Got(body) == [o |-> "body", body |-> body]
NoResponse == [o |-> "none", body |-> NotJson]

\* "t", an access token
TokenT == <<116>>

\* bodies the metadata service (or whatever answers in its place) may send
TokenBodies ==
    { NotJson, NullBody, ArrayBody, EmptyObject,
      ObjectBody(JStr(TokenT), Absent, Absent, Absent, Absent),
      ObjectBody(JNum(5), Absent, Absent, Absent, Absent) }

TokenOutcomes == {DoErr, ReadErr} \cup {Got(b) : b \in TokenBodies}

\* the bytes a secret is made of: "<" and a byte that is not UTF-8
ByteVals == {60, 255}

RECURSIVE SeqsUpTo(_, _)
SeqsUpTo(S, n) ==
    IF n = 0 THEN {<<>>}
    ELSE LET shorter == SeqsUpTo(S, n - 1)
         IN  shorter \cup {Append(q, x) : q \in {t \in shorter : Len(t) = n - 1}, x \in S}

Secrets == SeqsUpTo(ByteVals, MaxBytes)

\* payload.data strings that are not the encoding of a secret: "PA" (no
\* padding), "PA=A" (text after padding), "*A==" (a character outside the
\* alphabet) and "PA==\n" (a line break, which the decoder skips)
OddData == { <<80, 65>>, <<80, 65, 61, 65>>, <<42, 65, 61, 61>>, <<80, 65, 61, 61, 10>> }

DataStrings == {B64Encode(b) : b \in Secrets} \cup OddData

\* "DENIED"
StatusDenied == <<68, 69, 78, 73, 69, 68>>

\* bodies the Secret Manager endpoint may send
SecretBodies ==
    { NotJson, NullBody, ArrayBody, EmptyObject,
      ObjectBody(Absent, JNum(7), JStr(StatusDenied), Absent, Absent),
      ObjectBody(Absent, JObj, Absent, Absent, Absent),
      ObjectBody(Absent, Absent, Absent, JNum(1), Absent),
      ObjectBody(Absent, Absent, Absent, JObj, Absent),
      ObjectBody(Absent, JNum(0), JNum(5), JObj, JStr(B64Encode(<<60>>))),
      ObjectBody(Absent, JNum(7), JStr(StatusDenied), JObj, JStr(B64Encode(<<60>>))),
      ObjectBody(Absent, Absent, Absent, JObj, JStr(B64Encode(<<60>>))) }
    \cup { ObjectBody(Absent, JNum(0), Absent, JObj, JStr(d)) : d \in DataStrings }

SecretOutcomes == {DoErr, ReadErr} \cup {Got(b) : b \in SecretBodies}

\* ------------------------------------------------------------- the state

VARIABLES
    env,            \* the process environment: name -> [set, val]
    metadataUp,     \* whether the metadata endpoint can be reached at all
    secretGetter,   \* main's SecretGetter{googleCloudProject}
    pc,             \* per request: "idle", "awaitToken", "awaitSecret", "done"
    rq,             \* per request: the inbound request (Method, secret header values)
    rs,             \* per request: GetSecret's rs/bytes, the last upstream answer
    inflight,       \* per request: the outbound call http.DefaultClient.Do is in
    answer,         \* per request: the struct{Name, Value} the handler marshals
    w,              \* per request: the ResponseWriter (status, Content-Type, body)
    tokenCalls,     \* per request: Do calls made to the metadata endpoint
    secretCalls,    \* per request: Do calls made to the Secret Manager endpoint
    envLookups      \* per request: syscall.Getenv calls made

vars == <<env, metadataUp, secretGetter, pc, rq, rs, inflight, answer, w,
          tokenCalls, secretCalls, envLookups>>

\* "p", a project identifier; "v", an environment variable's value
ProjectP == <<112>>
ValueV == <<118>>

Unset == [set |-> FALSE, val |-> <<>>]
SetTo(v) == [set |-> TRUE, val |-> v]

EnvNames == {GcpProjectVar, NameF}

Environment(g, f) == [n \in EnvNames |-> IF n = GcpProjectVar THEN g ELSE f]

\* GCP_PROJECT unset, empty or "p"; F unset, empty or "v" (with a project,
\* where F is not read, unset or "v")
Environments ==
    { Environment(g, f) : g \in {Unset, SetTo(Empty)},
                          f \in {Unset, SetTo(Empty), SetTo(ValueV)} }
    \cup { Environment(SetTo(ProjectP), f) : f \in {Unset, SetTo(ValueV)} }

\* syscall.Getenv: (value, found)
Getenv(name) ==
    IF name \in DOMAIN env /\ env[name].set
    THEN [value |-> env[name].val, ok |-> TRUE]
    ELSE [value |-> <<>>, ok |-> FALSE]

\* faulty variant: an empty value counts as unset (os.Getenv-style test)
getEnvEmptyIsUnset(name, fallback) ==
    IF Getenv(name).value = <<>> THEN fallback ELSE Getenv(name).value

\* getEnv: the variable's value if it is set, the fallback if not
getEnv(name, fallback) ==
    IF ~Getenv(name).ok THEN fallback ELSE Getenv(name).value

\* inbound requests: the method, and the values of the "secret" header
Methods == {MethodGet, MethodPost}
HeaderValues == {<<>>, <<Empty>>, <<NameF>>, <<NamePct>>}

NoRequest == [Method |-> <<>>, Header |-> <<>>]

\* http.Header.Get: the first value, "" if there is none
HeaderGet(h) == IF Len(h) = 0 THEN <<>> ELSE h[1]

\* outbound calls
NoCall == [url |-> [service |-> "none", project |-> <<>>, name |-> <<>>],
           key |-> "", value |-> <<>>]

\* "Google"
FlavorGoogle == <<71, 111, 111, 103, 108, 101>>

TokenCall == [url |-> TokenUrl, key |-> "Metadata-Flavor", value |-> FlavorGoogle]

SecretCall(project, name, token) ==
    [url |-> SecretUrl(project, name), key |-> "Authorization",
     value |-> BearerPrefix \o token]

NoAnswer == [set |-> FALSE, Name |-> <<>>, Value |-> <<>>]

\* the handler's struct literal, Value being what GetSecret returned
Answer(name, value) == [set |-> TRUE, Name |-> name, Value |-> value]

NothingWritten == [status |-> 0, contentType |-> <<>>, body |-> <<>>]

Init ==
    /\ env \in Environments
    /\ metadataUp \in BOOLEAN
    /\ secretGetter = [GoogleCloudProject |-> getEnv(GcpProjectVar, Empty)]
    /\ pc = [r \in Requests |-> "idle"]
    /\ rq = [r \in Requests |-> NoRequest]
    /\ rs = [r \in Requests |-> NoResponse]
    /\ inflight = [r \in Requests |-> NoCall]
    /\ answer = [r \in Requests |-> NoAnswer]
    /\ w = [r \in Requests |-> NothingWritten]
    /\ tokenCalls = [r \in Requests |-> 0]
    /\ secretCalls = [r \in Requests |-> 0]
    /\ envLookups = [r \in Requests |-> 0]

\* ------------------------------------------------------- getSecretHandler

\* the fallback the handler passes to GetSecret
HandlerFallback(name) == FallbackDefault

\* faulty variant: the header check ahead of the method check
RejectionHeaderFirst(method, name) ==
    IF name = <<>> THEN StatusBadRequest
    ELSE IF method # MethodGet THEN StatusMethodNotAllowed
    ELSE 0

\* the status the handler rejects a request with, 0 if it goes on
Rejection(method, name) ==
    IF method # MethodGet THEN StatusMethodNotAllowed
    ELSE IF name = <<>> THEN StatusBadRequest
    ELSE 0

\* WriteHeader(status) alone: no Content-Type, no body
WriteStatus(status) == [status |-> status, contentType |-> <<>>, body |-> <<>>]

\* the handler's tail: Marshal, then 500 or Content-Type, 200 and the body
WriteSecret(name, value) ==
    IF Marshal(name, value).err THEN WriteStatus(StatusInternalServerError)
    ELSE [status |-> StatusOK, contentType |-> ApplicationJson,
          body |-> Marshal(name, value).bytes]

\* ---------------------------------------------------------------- GetSecret

\* faulty variant: remote mode only when the variable F is not set
LocalModeOrEnvSet(sg) == sg.GoogleCloudProject = <<>> \/ Getenv(NameF).ok

\* the first test of GetSecret
LocalMode(sg) == sg.GoogleCloudProject = <<>>

\* faulty variant: Do's error on the token call is not checked
TokenFailedIgnoringDoErr(out) ==
    out.o = "readErr" \/ (out.o = "body" /\ UnmarshalToken(out.body).err)

\* whether GetSecret returns the fallback on the token call's outcome
TokenFailed(out) ==
    \/ out.o = "doErr"
    \/ out.o = "readErr"
    \/ UnmarshalToken(out.body).err

\* faulty variant: the error code is not looked at
SecretValueIgnoringCode(out, fallback) ==
    IF out.o # "body" \/ UnmarshalSecret(out.body).err THEN fallback
    ELSE IF DecodeString(UnmarshalSecret(out.body).Data).err THEN fallback
    ELSE DecodeString(UnmarshalSecret(out.body).Data).data

\* faulty variant: a decoded payload that is empty is taken as a failure
SecretValueEmptyIsFailure(out, fallback) ==
    IF out.o # "body" \/ UnmarshalSecret(out.body).err THEN fallback
    ELSE IF UnmarshalSecret(out.body).Error # 0 THEN fallback
    ELSE IF DecodeString(UnmarshalSecret(out.body).Data).err THEN fallback
    ELSE IF DecodeString(UnmarshalSecret(out.body).Data).data = <<>> THEN fallback
    ELSE DecodeString(UnmarshalSecret(out.body).Data).data

\* what GetSecret returns on the secret call's outcome
SecretValue(out, fallback) ==
    IF out.o = "doErr" THEN fallback
    ELSE IF out.o = "readErr" THEN fallback
    ELSE IF UnmarshalSecret(out.body).err THEN fallback
    ELSE IF UnmarshalSecret(out.body).Error # 0 THEN fallback
    ELSE IF DecodeString(UnmarshalSecret(out.body).Data).err THEN fallback
    ELSE DecodeString(UnmarshalSecret(out.body).Data).data

\* ------------------------------------------------------------------ actions

Arrives(r, m, h) ==
    /\ pc[r] = "idle"
    /\ rq' = [rq EXCEPT ![r] = [Method |-> m, Header |-> h]]

Responds(r, ans, response) ==
    /\ answer' = [answer EXCEPT ![r] = ans]
    /\ w' = [w EXCEPT ![r] = response]
    /\ pc' = [pc EXCEPT ![r] = "done"]
    /\ inflight' = [inflight EXCEPT ![r] = NoCall]

\* a request that is not a GET with a secret header: 405 or 400
Reject(r, m, h) ==
    /\ Arrives(r, m, h)
    /\ Rejection(m, HeaderGet(h)) # 0
    /\ Responds(r, NoAnswer, WriteStatus(Rejection(m, HeaderGet(h))))
    /\ UNCHANGED <<env, metadataUp, secretGetter, rs, tokenCalls, secretCalls, envLookups>>

\* no project: GetSecret is getEnv, and the handler answers at once
ServeLocal(r, m, h) ==
    /\ Arrives(r, m, h)
    /\ Rejection(m, HeaderGet(h)) = 0
    /\ LocalMode(secretGetter)
    /\ envLookups' = [envLookups EXCEPT ![r] = @ + 1]
    /\ Responds(r, Answer(HeaderGet(h), getEnv(HeaderGet(h), HandlerFallback(HeaderGet(h)))),
                 WriteSecret(HeaderGet(h),
                             getEnv(HeaderGet(h), HandlerFallback(HeaderGet(h)))))
    /\ UNCHANGED <<env, metadataUp, secretGetter, rs, tokenCalls, secretCalls>>

\* faulty variant: a token another request is using is reused, not fetched
FetchTokenCached(r, m, h) ==
    /\ Arrives(r, m, h)
    /\ Rejection(m, HeaderGet(h)) = 0
    /\ ~LocalMode(secretGetter)
    /\ IF \E q \in Requests : pc[q] = "awaitSecret"
       THEN /\ \E q \in Requests :
                 /\ pc[q] = "awaitSecret"
                 /\ inflight' = [inflight EXCEPT ![r] =
                        [inflight[q] EXCEPT !.url =
                            SecretUrl(secretGetter.GoogleCloudProject, HeaderGet(h))]]
                 /\ rs' = [rs EXCEPT ![r] = rs[q]]
            /\ ~NewRequestErr(SecretUrl(secretGetter.GoogleCloudProject, HeaderGet(h)))
            /\ secretCalls' = [secretCalls EXCEPT ![r] = @ + 1]
            /\ pc' = [pc EXCEPT ![r] = "awaitSecret"]
            /\ UNCHANGED tokenCalls
       ELSE /\ inflight' = [inflight EXCEPT ![r] = TokenCall]
            /\ tokenCalls' = [tokenCalls EXCEPT ![r] = @ + 1]
            /\ pc' = [pc EXCEPT ![r] = "awaitToken"]
            /\ UNCHANGED <<rs, secretCalls>>
    /\ UNCHANGED <<env, metadataUp, secretGetter, answer, w, envLookups>>

\* a project: GetSecret builds the token request and calls Do
FetchToken(r, m, h) ==
    /\ Arrives(r, m, h)
    /\ Rejection(m, HeaderGet(h)) = 0
    /\ ~LocalMode(secretGetter)
    /\ IF NewRequestErr(TokenUrl)
       THEN /\ Responds(r, Answer(HeaderGet(h), HandlerFallback(HeaderGet(h))),
                         WriteSecret(HeaderGet(h), HandlerFallback(HeaderGet(h))))
            /\ UNCHANGED tokenCalls
       ELSE /\ inflight' = [inflight EXCEPT ![r] = TokenCall]
            /\ tokenCalls' = [tokenCalls EXCEPT ![r] = @ + 1]
            /\ pc' = [pc EXCEPT ![r] = "awaitToken"]
            /\ UNCHANGED <<answer, w>>
    /\ UNCHANGED <<env, metadataUp, secretGetter, rs, secretCalls, envLookups>>

\* the token call ends in a way that makes GetSecret return the fallback
\* (Do or ReadAll fails, the body does not unmarshal), or the secret's URL
\* is one NewRequest refuses
TokenStepFails(r, out) ==
    /\ pc[r] = "awaitToken"
    /\ metadataUp \/ out = DoErr
    /\ rs' = [rs EXCEPT ![r] = out]
    /\ \/ TokenFailed(out)
       \/ NewRequestErr(SecretUrl(secretGetter.GoogleCloudProject, HeaderGet(rq[r].Header)))
    /\ Responds(r, Answer(HeaderGet(rq[r].Header), HandlerFallback(HeaderGet(rq[r].Header))),
                 WriteSecret(HeaderGet(rq[r].Header),
                             HandlerFallback(HeaderGet(rq[r].Header))))
    /\ UNCHANGED <<env, metadataUp, secretGetter, rq, tokenCalls, secretCalls, envLookups>>

\* the token response unmarshals: GetSecret calls the secret endpoint with
\* the access token as bearer
FetchSecret(r, out) ==
    /\ pc[r] = "awaitToken"
    /\ metadataUp \/ out = DoErr
    /\ rs' = [rs EXCEPT ![r] = out]
    /\ ~TokenFailed(out)
    /\ ~NewRequestErr(SecretUrl(secretGetter.GoogleCloudProject, HeaderGet(rq[r].Header)))
    /\ inflight' = [inflight EXCEPT ![r] =
                      SecretCall(secretGetter.GoogleCloudProject, HeaderGet(rq[r].Header),
                                 UnmarshalToken(out.body).AccessToken)]
    /\ secretCalls' = [secretCalls EXCEPT ![r] = @ + 1]
    /\ pc' = [pc EXCEPT ![r] = "awaitSecret"]
    /\ UNCHANGED <<env, metadataUp, secretGetter, rq, answer, w, tokenCalls, envLookups>>

\* the secret call ends: GetSecret returns and the handler answers
SecretStep(r, out) ==
    /\ pc[r] = "awaitSecret"
    /\ rs' = [rs EXCEPT ![r] = out]
    /\ Responds(r, Answer(HeaderGet(rq[r].Header),
                           SecretValue(out, HandlerFallback(HeaderGet(rq[r].Header)))),
                 WriteSecret(HeaderGet(rq[r].Header),
                             SecretValue(out, HandlerFallback(HeaderGet(rq[r].Header)))))
    /\ UNCHANGED <<env, metadataUp, secretGetter, rq, tokenCalls, secretCalls, envLookups>>

Next ==
    \/ \E r \in Requests, m \in Methods, h \in HeaderValues : Reject(r, m, h)
    \/ \E r \in Requests, m \in Methods, h \in HeaderValues : ServeLocal(r, m, h)
    \/ \E r \in Requests, m \in Methods, h \in HeaderValues : FetchToken(r, m, h)
    \/ \E r \in Requests, out \in TokenOutcomes : TokenStepFails(r, out)
    \/ \E r \in Requests, out \in TokenOutcomes : FetchSecret(r, out)
    \/ \E r \in Requests, out \in SecretOutcomes : SecretStep(r, out)

Spec == Init /\ [][Next]_vars

\* ------------------------------------------------------------------ claims
\* The properties below read the state directly (the configured project, the
\* environment, the recorded request, upstream answer and response), not
\* through the operators that model the code.

IsString(s) == s \in Seq(0..255)

\* the secret name the request carries in its "secret" header
NameOf(r) == IF Len(rq[r].Header) = 0 THEN <<>> ELSE rq[r].Header[1]

\* the request passes the handler's two checks, so GetSecret is called
Accepted(r) == rq[r].Method = MethodGet /\ NameOf(r) # <<>>

Finished(r) == pc[r] = "done"

RemoteMode == secretGetter.GoogleCloudProject # <<>>

\* the request's GetSecret call got as far as the secret endpoint
AtSecretStage(r) == secretCalls[r] = 1 /\ pc[r] = "done"

\* the last upstream answer is a body that is a JSON object
GotObject(r) == rs[r].o = "body" /\ rs[r].body.kind = "object"

\* the error code a secret response carries (none counts as 0)
ErrorCodeIsZero(body) == body.error.t \in {"absent", "null"} \/ body.error = JNum(0)

\* the secret response has the documented shape where it has members at all:
\* error an integer, status a string, payload an object, data a string
WellTyped(body) ==
    /\ body.error.t \in {"absent", "null", "number"}
    /\ body.status.t \in {"absent", "null", "string"}
    /\ body.payload.t = "object"
    /\ body.data.t = "string"

\* a failure of the kinds the resolver's contract lists
ListedFailure(r) ==
    \/ rs[r].o \in {"doErr", "readErr"}
    \/ rs[r].o = "body" /\ rs[r].body.kind = "syntax"
    \/ /\ AtSecretStage(r)
       /\ GotObject(r)
       /\ \/ rs[r].body.error.t = "number" /\ rs[r].body.error.n # 0
          \/ /\ rs[r].body.payload.t = "object"
             /\ rs[r].body.data.t = "string"
             /\ DecodeString(rs[r].body.data.s).err

\* C1: GetSecret never fails outward. Every accepted request ends with a
\* value that is a string, and in remote mode, whenever a step failed (Do or
\* ReadAll on either call, a body that is not JSON, a non-zero error code, a
\* payload that does not decode), that value is the caller's fallback.
C1_NeverFailsOutward ==
    \A r \in Requests :
        (Finished(r) /\ Accepted(r)) =>
            /\ answer[r].set
            /\ IsString(answer[r].Value)
            /\ (RemoteMode /\ ListedFailure(r)) => answer[r].Value = FallbackDefault

\* a request in remote mode whose secret response carried a payload that
\* does not decode, answered with the fallback
C1_Witness ==
    \E r \in Requests :
        /\ RemoteMode /\ Finished(r) /\ AtSecretStage(r) /\ GotObject(r)
        /\ ErrorCodeIsZero(rs[r].body)
        /\ WellTyped(rs[r].body)
        /\ DecodeString(rs[r].body.data.s).err
        /\ answer[r].Value = FallbackDefault

\* C2: local mode. With no project, the value is that of the environment
\* variable named exactly as the secret if it is set (the empty string
\* included), and the fallback if it is unset.
C2_LocalMode ==
    \A r \in Requests :
        (~RemoteMode /\ Finished(r) /\ Accepted(r)) =>
            /\ answer[r].set
            /\ answer[r].Value =
                 IF NameOf(r) \in DOMAIN env /\ env[NameOf(r)].set
                 THEN env[NameOf(r)].val
                 ELSE FallbackDefault

\* a local-mode request for a variable set to the empty string, answered ""
C2_Witness ==
    \E r \in Requests :
        /\ ~RemoteMode /\ Finished(r) /\ Accepted(r)
        /\ NameOf(r) = NameF
        /\ env[NameF] = SetTo(Empty)
        /\ answer[r].Value = <<>>

\* C3: remote mode, both calls succeed, the secret response carries error
\* code 0 and payload.data is the standard base64 of bytes b: the value is b.
C3_DecodedSecret ==
    \A r \in Requests :
        \A b \in Secrets :
            ( /\ RemoteMode /\ Finished(r) /\ Accepted(r) /\ AtSecretStage(r)
              /\ GotObject(r)
              /\ ErrorCodeIsZero(rs[r].body)
              /\ WellTyped(rs[r].body)
              /\ rs[r].body.data.s = B64Encode(b) )
            => answer[r].Value = b

\* a request answered with a non-empty decoded secret, not the fallback
C3_Witness ==
    \E r \in Requests :
        /\ RemoteMode /\ Finished(r) /\ AtSecretStage(r) /\ GotObject(r)
        /\ rs[r].body.error = JNum(0)
        /\ WellTyped(rs[r].body)
        /\ rs[r].body.data.s = B64Encode(<<255>>)
        /\ answer[r].Value = <<255>>
        /\ answer[r].Value # FallbackDefault

\* C4 as stated: with the token endpoint unreachable the value is the
\* fallback whether or not a project is configured, whatever the environment.
C4_FallbackRegardlessOfProject ==
    \A r \in Requests :
        (~metadataUp /\ Finished(r) /\ Accepted(r)) => answer[r].Value = FallbackDefault

\* C4, amended: with the token endpoint unreachable, the value is the
\* fallback when a project is configured; when none is configured the token
\* endpoint is not called and the value is the environment variable's if it
\* is set, the fallback if not.
C4_FallbackWhenUnreachable ==
    \A r \in Requests :
        (~metadataUp /\ Finished(r) /\ Accepted(r)) =>
            IF RemoteMode
            THEN /\ answer[r].Value = FallbackDefault
                 /\ secretCalls[r] = 0
            ELSE /\ tokenCalls[r] = 0
                 /\ answer[r].Value =
                      IF NameOf(r) \in DOMAIN env /\ env[NameOf(r)].set
                      THEN env[NameOf(r)].val
                      ELSE FallbackDefault

\* remote mode, endpoint unreachable, the token call made and failed, the
\* fallback returned though the environment has a variable of that name
C4_Witness ==
    \E r \in Requests :
        /\ RemoteMode /\ ~metadataUp /\ Finished(r) /\ Accepted(r)
        /\ tokenCalls[r] = 1
        /\ rs[r].o = "doErr"
        /\ NameOf(r) = NameF /\ env[NameF].set
        /\ answer[r].Value = FallbackDefault

\* C5: a request whose method is not GET gets 405, header or no header; a
\* GET without a (non-empty) secret header gets 400; both with an empty body,
\* GetSecret not called: no outbound call, no environment lookup.
C5_Rejections ==
    \A r \in Requests :
        (Finished(r) /\ ~Accepted(r)) =>
            /\ w[r].status = (IF rq[r].Method # MethodGet THEN 405 ELSE 400)
            /\ w[r].body = <<>>
            /\ w[r].contentType = <<>>
            /\ ~answer[r].set
            /\ tokenCalls[r] = 0 /\ secretCalls[r] = 0 /\ envLookups[r] = 0
            /\ rs[r] = NoResponse

\* a POST without the header answered 405 and a GET with an empty header 400
C5_Witness ==
    /\ \E r \in Requests :
          Finished(r) /\ rq[r].Method = MethodPost /\ rq[r].Header = <<>>
          /\ w[r].status = 405
    /\ \E r \in Requests :
          Finished(r) /\ rq[r].Method = MethodGet /\ rq[r].Header = <<Empty>>
          /\ w[r].status = 400

\* C10: the two strategies are exclusive. With a project configured the
\* environment is never looked up, so a failed remote path gives the
\* fallback even when a variable of that name is set; the environment is
\* read only when no project is configured.
C10_ExclusiveStrategies ==
    \A r \in Requests :
        /\ RemoteMode => envLookups[r] = 0
        /\ envLookups[r] > 0 => ~RemoteMode
        /\ ~RemoteMode => (tokenCalls[r] = 0 /\ secretCalls[r] = 0)
        /\ (RemoteMode /\ Finished(r) /\ Accepted(r) /\ rs[r].o \in {"doErr", "readErr"})
              => answer[r].Value = FallbackDefault

\* remote mode, F set to "v" in the environment, the secret call failed:
\* the answer is the fallback, not "v"
C10_Witness ==
    \E r \in Requests :
        /\ RemoteMode /\ Finished(r) /\ Accepted(r)
        /\ NameOf(r) = NameF /\ env[NameF] = SetTo(ValueV)
        /\ AtSecretStage(r) /\ rs[r].o = "doErr"
        /\ envLookups[r] = 0
        /\ answer[r].Value = FallbackDefault

\* ---- reading the response body back, as a client of the endpoint does

\* the UTF-8 encoding of a code point below 0x10000
Utf8(cp) ==
    IF cp < 128 THEN <<cp>>
    ELSE IF cp < 2048 THEN <<192 + (cp \div 64), 128 + (cp % 64)>>
    ELSE <<224 + (cp \div 4096), 128 + ((cp \div 64) % 64), 128 + (cp % 64)>>

\* the byte a two-character escape stands for, -1 if there is no such escape
SimpleEscape(c) ==
    IF c \in {34, 92, 47} THEN c
    ELSE IF c = 98 THEN 8
    ELSE IF c = 102 THEN 12
    ELSE IF c = 110 THEN 10
    ELSE IF c = 114 THEN 13
    ELSE IF c = 116 THEN 9
    ELSE -1

NoString(i) == [ok |-> FALSE, val |-> <<>>, next |-> i]

\* the JSON string whose first character (after the opening quote) is s[i]:
\* its value and the position after its closing quote
RECURSIVE ReadString(_, _)
ReadString(s, i) ==
    IF i > Len(s) THEN NoString(i)
    ELSE IF s[i] = 34 THEN [ok |-> TRUE, val |-> <<>>, next |-> i + 1]
    ELSE IF s[i] < 32 THEN NoString(i)
    ELSE IF s[i] # 92 THEN
        LET rest == ReadString(s, i + 1)
        IN  [ok |-> rest.ok, val |-> <<s[i]>> \o rest.val, next |-> rest.next]
    ELSE IF i + 1 > Len(s) THEN NoString(i)
    ELSE IF s[i + 1] = 117 THEN
        IF i + 5 > Len(s) \/ \E k \in 2..5 : ~IsHex(s[i + k]) THEN NoString(i)
        ELSE LET cp == HexVal(s[i + 2]) * 4096 + HexVal(s[i + 3]) * 256
                       + HexVal(s[i + 4]) * 16 + HexVal(s[i + 5])
                 rest == ReadString(s, i + 6)
             IN  [ok |-> rest.ok, val |-> Utf8(cp) \o rest.val, next |-> rest.next]
    ELSE IF SimpleEscape(s[i + 1]) < 0 THEN NoString(i)
    ELSE LET rest == ReadString(s, i + 2)
         IN  [ok |-> rest.ok, val |-> <<SimpleEscape(s[i + 1])>> \o rest.val,
              next |-> rest.next]

\* whether lit occurs in s at position i
HasAt(s, i, lit) == i + Len(lit) - 1 <= Len(s) /\ SubSeq(s, i, i + Len(lit) - 1) = lit

\* the object {"name":<string>,"value":<string>} a body is, if it is one
ReadBody(body) ==
    LET n == ReadString(body, Len(LitName) + 2)
        v == ReadString(body, n.next + Len(LitValue) + 1)
    IN  IF /\ HasAt(body, 1, LitName \o <<34>>)
           /\ n.ok
           /\ HasAt(body, n.next, LitValue \o <<34>>)
           /\ v.ok
           /\ HasAt(body, v.next, LitClose)
           /\ v.next + Len(LitClose) - 1 = Len(body)
        THEN [ok |-> TRUE, name |-> n.val, value |-> v.val]
        ELSE [ok |-> FALSE, name |-> <<>>, value |-> <<>>]

\* every byte of s belongs to a well-formed UTF-8 encoding
RECURSIVE ValidUtf8From(_, _)
ValidUtf8From(s, i) ==
    IF i > Len(s) THEN TRUE
    ELSE IF RuneSize(s, i) = 0 THEN FALSE
    ELSE ValidUtf8From(s, i + RuneSize(s, i))

\* C6 as stated: every GET with a non-empty secret header X gets 200,
\* Content-Type application/json and a body that is the JSON object with
\* name = X and value = V, V being what GetSecret returned; a resolver
\* failure gives 200 with the fallback as value, never a 4xx or 5xx.
C6_OkWithNameAndValue ==
    \A r \in Requests :
        (Finished(r) /\ Accepted(r)) =>
            /\ w[r].status = 200
            /\ w[r].contentType = ApplicationJson
            /\ ReadBody(w[r].body) =
                 [ok |-> TRUE, name |-> NameOf(r), value |-> answer[r].Value]
            /\ (RemoteMode /\ ListedFailure(r)) =>
                 ReadBody(w[r].body).value = FallbackDefault

\* C6, what the code does keep: the status, the Content-Type, the name, the
\* fallback on failure, and the value whenever the value is UTF-8.
C6_HoldsForUtf8Values ==
    \A r \in Requests :
        (Finished(r) /\ Accepted(r)) =>
            /\ w[r].status = 200
            /\ w[r].contentType = ApplicationJson
            /\ ReadBody(w[r].body).ok
            /\ ReadBody(w[r].body).name = NameOf(r)
            /\ ValidUtf8From(answer[r].Value, 1) =>
                 ReadBody(w[r].body).value = answer[r].Value
            /\ (RemoteMode /\ ListedFailure(r)) =>
                 ReadBody(w[r].body).value = FallbackDefault

\* the secret response is not what the endpoint documents: not an object,
\* a member of the wrong type, or no payload.data string in it
UnexpectedSecretResponse(body) ==
    \/ body.kind # "object"
    \/ body.error.t \notin {"absent", "number"}
    \/ body.status.t \notin {"absent", "string"}
    \/ body.payload.t # "object"
    \/ body.data.t # "string"

\* C7 as stated, for the answer of the secret endpoint: in remote mode a
\* body that is not JSON, or JSON of another shape than the documented one
\* (the object {} for one), makes GetSecret return the fallback, never an
\* empty or partial value taken from that body.
C7_UnexpectedJsonGivesFallback ==
    \A r \in Requests :
        ( /\ RemoteMode /\ Finished(r) /\ Accepted(r) /\ AtSecretStage(r)
          /\ rs[r].o = "body"
          /\ UnexpectedSecretResponse(rs[r].body) )
        => answer[r].Value = FallbackDefault

\* C7, what the code does keep: a body that does not unmarshal (not JSON, an
\* array, a member of the wrong JSON type) gives the fallback.
C7_HoldsForUnmarshalErrors ==
    \A r \in Requests :
        ( /\ RemoteMode /\ Finished(r) /\ Accepted(r)
          /\ rs[r].o = "body"
          /\ \/ rs[r].body.kind \in {"syntax", "array"}
             \/ /\ AtSecretStage(r) /\ rs[r].body.kind = "object"
                /\ \/ rs[r].body.error.t \in {"string", "object"}
                   \/ rs[r].body.status.t \in {"number", "object"}
                   \/ rs[r].body.payload.t \in {"number", "string"}
                   \/ rs[r].body.payload.t = "object" /\ rs[r].body.data.t \in {"number", "object"} )
        => answer[r].Value = FallbackDefault

\* the token response unmarshalled without error: the access token it gives
TokenParsed(out) ==
    /\ out.o = "body"
    /\ out.body.kind \in {"object", "null"}
    /\ out.body.kind = "object" => out.body.access_token.t \in {"absent", "null", "string"}

TokenIn(out) ==
    IF out.body.kind = "object" /\ out.body.access_token.t = "string"
    THEN out.body.access_token.s
    ELSE <<>>

\* C8, in every state: no outbound call in local mode; at most one token
\* call and one secret call per request, the secret call never without the
\* token call; a secret call in flight goes to the URL of this project and
\* name and carries "Bearer " and the token parsed from the token response,
\* which was read and unmarshalled without error.
C8_CallsInState ==
    \A r \in Requests :
        /\ tokenCalls[r] <= 1 /\ secretCalls[r] <= 1
        /\ secretCalls[r] <= tokenCalls[r]
        /\ ~RemoteMode => (tokenCalls[r] = 0 /\ secretCalls[r] = 0 /\ inflight[r] = NoCall)
        /\ pc[r] = "awaitToken" =>
             /\ inflight[r].url.service = "metadata"
             /\ inflight[r].key = "Metadata-Flavor"
             /\ tokenCalls[r] = 1 /\ secretCalls[r] = 0
        /\ pc[r] = "awaitSecret" =>
             /\ tokenCalls[r] = 1 /\ secretCalls[r] = 1
             /\ TokenParsed(rs[r])
             /\ inflight[r].url = [service |-> "secretmanager",
                                   project |-> secretGetter.GoogleCloudProject,
                                   name |-> NameOf(r)]
             /\ inflight[r].key = "Authorization"
             /\ inflight[r].value = BearerPrefix \o TokenIn(rs[r])
        /\ pc[r] \in {"idle", "done"} => inflight[r] = NoCall

\* C8, in every step: the token call is made when the request comes in, the
\* secret call only while the token call is the one awaited; a token call
\* that failed ends the request with no secret call; a finished request
\* makes no further call.
C8_CallsInStep ==
    \A r \in Requests :
        /\ tokenCalls'[r] # tokenCalls[r] => (pc[r] = "idle" /\ pc'[r] = "awaitToken")
        /\ secretCalls'[r] # secretCalls[r] =>
             (pc[r] = "awaitToken" /\ tokenCalls[r] = 1 /\ pc'[r] = "awaitSecret")
        /\ (pc[r] = "awaitToken" /\ pc'[r] # pc[r] /\ ~TokenParsed(rs'[r])) =>
             (pc'[r] = "done" /\ secretCalls'[r] = 0 /\ inflight'[r] = NoCall)
        /\ pc[r] = "done" =>
             /\ pc'[r] = "done"
             /\ tokenCalls'[r] = tokenCalls[r]
             /\ secretCalls'[r] = secretCalls[r]
             /\ inflight'[r] = NoCall

\* C8: within one GetSecret call the outbound calls are ordered and bounded.
C8_OrderedBoundedCalls == []C8_CallsInState /\ [][C8_CallsInStep]_vars

\* a secret call in flight that carries the token "t" of the token response
C8_Witness ==
    \E r \in Requests :
        /\ pc[r] = "awaitSecret"
        /\ TokenIn(rs[r]) = TokenT
        /\ inflight[r].value = BearerPrefix \o TokenT
        /\ tokenCalls[r] = 1 /\ secretCalls[r] = 1

\* requests that reached the resolver in remote mode
Resolving == {r \in Requests : RemoteMode /\ Accepted(r)}

\* C9: requests are independent. In remote mode every request that reaches
\* the resolver makes its own token call, exactly one (no reuse, no retry),
\* and its own secret call once the token step went through, so there are as
\* many token calls as such requests; and two finished requests with the
\* same method and header that got the same upstream answers have the same
\* response, whatever the other requests did in between.
C9_IndependentRequests ==
    /\ \A r \in Resolving :
          /\ tokenCalls[r] = 1
          /\ pc[r] = "awaitToken" => inflight[r].url.service = "metadata"
          /\ pc[r] = "awaitSecret" => secretCalls[r] = 1
          /\ (pc[r] = "done" /\ secretCalls[r] = 0) =>
                (~TokenParsed(rs[r]) \/ ~EscapesOk(NameOf(r)))
    /\ Cardinality({r \in Requests : tokenCalls[r] > 0}) = Cardinality(Resolving)
    /\ \A r \in Requests : tokenCalls[r] <= 1 /\ secretCalls[r] <= 1
    /\ \A r1, r2 \in Requests :
          ( /\ Finished(r1) /\ Finished(r2)
            /\ rq[r1] = rq[r2]
            /\ rs[r1] = rs[r2]
            /\ secretCalls[r1] = secretCalls[r2] )
          => (w[r1] = w[r2] /\ answer[r1] = answer[r2])

\* two finished requests for the same name, each with its own token call
\* and its own secret call, one answered with a secret, one with the fallback
C9_Witness ==
    \E r1, r2 \in Requests :
        /\ r1 # r2 /\ RemoteMode
        /\ Finished(r1) /\ Finished(r2)
        /\ rq[r1] = rq[r2] /\ Accepted(r1)
        /\ tokenCalls[r1] = 1 /\ tokenCalls[r2] = 1
        /\ secretCalls[r1] = 1 /\ secretCalls[r2] = 1
        /\ answer[r1].Value = <<60>>
        /\ answer[r2].Value = FallbackDefault

====
